---- MODULE Spec2Model ----
(***************************************************************************)
(* A model of the Groq completion client (src/src/completion/client.rs):   *)
(* the message store (messages, tmp_messages), the request assembler, the  *)
(* dispatch of create on the stream flag, the non-streaming exchange and   *)
(* the SSE loop of create_stream_completion.                                *)
(*                                                                         *)
(* One client instance is modelled.  create takes &mut self, so while a    *)
(* call is in flight (pc # "idle") no store operation can run; the call    *)
(* itself is split at its suspension points (.await).  The remote side and *)
(* the event source are the environment: each await draws its outcome from *)
(* a small set.                                                            *)
(***************************************************************************)
EXTENDS Integers, Sequences, FiniteSets, TLC

\* ------------------------------------------------------------------ bounds
\* Longest history / pending buffer explored.
MaxMsgs == 2
\* Most events one event stream delivers before it ends.
MaxEvents == 3

\* ------------------------------------------------------------- value sets
\* Messages are opaque structural values.
Msgs == {"m1", "m2"}
Keys == {"", "k"}
SeqsUpTo(S, n) == UNION {[1..k -> S] : k \in 0..n}

\* HTTP statuses the remote may answer with: OK, another 2xx, two failures.
Statuses == {200, 201, 429, 500}
\* Response bodies: a Response document, an error document carrying its own
\* code value (0: none), or text that is no JSON of either shape.
Bodies == {[kind |-> "response", id |-> 1, code |-> 0],
           [kind |-> "error", id |-> 0, code |-> 0],
           [kind |-> "error", id |-> 0, code |-> 400],
           [kind |-> "garbage", id |-> 0, code |-> 0]}
\* Payloads of SSE message events.
DONE == "[DONE]"
Payloads == {DONE, "{c1}", "{c2}", "bad"}

NoResult == [tag |-> "none", variant |-> "", chunks |-> <<>>, response |-> 0,
             err |-> "", code |-> 0]
OkNonStream(r) == [tag |-> "ok", variant |-> "NonStream", chunks |-> <<>>,
                   response |-> r, err |-> "", code |-> 0]
OkStream(bs) == [tag |-> "ok", variant |-> "Stream", chunks |-> bs,
                 response |-> 0, err |-> "", code |-> 0]
Err(kind, c) == [tag |-> "err", variant |-> "", chunks |-> <<>>, response |-> 0,
                 err |-> kind, code |-> c]

NoBody == [kind |-> "none", id |-> 0, code |-> 0]
NoRequest == [built |-> FALSE, messages |-> <<>>, stream |-> FALSE]

\* ------------------------------------------------------------------ state
VARIABLES
    api_key,      \* Groq.api_key
    messages,     \* Groq.messages (history)
    tmp_messages, \* Groq.tmp_messages (pending)
    pc,           \* position of the create call in flight, or "idle"
    entry,        \* which function the caller invoked
    path,         \* which completion path runs
    flag,         \* the stream flag of the request builder passed in
    all,          \* the list returned by the assembler
    req,          \* the built Request
    stream,       \* the EventSource: "none", "open", "closed", "dropped"
    received,     \* the events stream.next() has yielded so far
    bufs,         \* the local chunk accumulator
    status,       \* status of the HTTP response (0: none)
    body,         \* the body read from the HTTP response
    sent,         \* requests / connections this call has issued
    result,       \* the value the call returned
    hist0,        \* history when the call started
    tmp0,         \* pending when the call started
    ghost         \* bookkeeping on pending messages (not program state)

storeVars == <<api_key, messages, tmp_messages>>
callVars == <<pc, entry, path, flag, all, req, stream, received, bufs, status,
              body, sent, result, hist0, tmp0>>
vars == <<api_key, messages, tmp_messages, pc, entry, path, flag, all, req,
          stream, received, bufs, status, body, sent, result, hist0, tmp0,
          ghost>>

\* Bookkeeping on one pending message, chosen freely among those pushed on
\* tmp_messages (followed only when on): track is "idle" before the choice,
\* "pending" while the message sits at tmp_messages[pos], "gone" after; uses
\* counts the assembled lists that held it and seen the assembler runs since
\* it was pushed (both stop counting at 2); dropped tells that a direct
\* clear_tmp_messages_override removed it.
GhostOff == [on |-> FALSE, track |-> "idle", pos |-> 0, uses |-> 0, seen |-> 0,
             dropped |-> FALSE]
GhostIdle == [GhostOff EXCEPT !.on = TRUE]
Min2(n) == IF n > 2 THEN 2 ELSE n
\* n messages were pushed behind the len already pending; the k-th of them
\* (k = 0: none) is chosen.
Pushed(g, len, n, k) ==
    IF g.on /\ g.track = "idle" /\ k \in 1..n
    THEN [g EXCEPT !.track = "pending", !.pos = len + k]
    ELSE g
\* tmp_messages was cleared directly.
Overridden(g) ==
    IF g.track = "pending"
    THEN [g EXCEPT !.track = "gone", !.pos = 0, !.dropped = TRUE]
    ELSE g
\* The pending buffer tmp with the chosen message marked 1, the others 0.
Marks(g, tmp) == [k \in 1..Len(tmp) |-> IF g.track = "pending" /\ k = g.pos THEN 1 ELSE 0]
Zeros(sq) == [k \in 1..Len(sq) |-> 0]
Occurrences(sq, x) == Cardinality({k \in 1..Len(sq) : sq[k] = x})
\* The assembler produced a list whose marks are inc, and emptied the pending
\* buffer or not.
Assembled(g, inc, emptied) ==
    IF ~g.on \/ g.track = "idle" THEN g
    ELSE [g EXCEPT !.uses = Min2(g.uses + Occurrences(inc, 1)),
                   !.seen = Min2(g.seen + 1),
                   !.track = IF emptied THEN "gone" ELSE g.track,
                   !.pos = IF emptied THEN 0 ELSE g.pos]

\* Groq::new: both vectors empty; no call in flight.
InitClient ==
    /\ api_key \in Keys
    /\ messages = <<>>
    /\ tmp_messages = <<>>
    /\ pc = "idle"
    /\ entry = ""
    /\ path = ""
    /\ flag = FALSE
    /\ all = <<>>
    /\ req = NoRequest
    /\ stream = "none"
    /\ received = <<>>
    /\ bufs = <<>>
    /\ status = 0
    /\ body = NoBody
    /\ sent = 0
    /\ result = NoResult
    /\ hist0 = <<>>
    /\ tmp0 = <<>>

Init ==
    /\ InitClient
    /\ ghost = GhostOff

\* The same client, one pending message being followed.
InitTracking ==
    /\ InitClient
    /\ ghost = GhostIdle

\* ---------------------------------------------------------- message store
add_message(msg) ==
    /\ pc = "idle"
    /\ Len(messages) < MaxMsgs
    /\ messages' = Append(messages, msg)
    /\ UNCHANGED <<api_key, tmp_messages>>
    /\ UNCHANGED callVars
    /\ UNCHANGED ghost

\* Variant: the new messages are put in front of the history.
add_messages_front(msgs) ==
    /\ pc = "idle"
    /\ Len(messages) + Len(msgs) <= MaxMsgs
    /\ messages' = msgs \o messages
    /\ UNCHANGED <<api_key, tmp_messages>>
    /\ UNCHANGED callVars
    /\ UNCHANGED ghost

add_messages(msgs) ==
    /\ pc = "idle"
    /\ Len(messages) + Len(msgs) <= MaxMsgs
    /\ messages' = messages \o msgs
    /\ UNCHANGED <<api_key, tmp_messages>>
    /\ UNCHANGED callVars
    /\ UNCHANGED ghost

clear_messages ==
    /\ pc = "idle"
    /\ messages' = <<>>
    /\ UNCHANGED <<api_key, tmp_messages>>
    /\ UNCHANGED callVars
    /\ UNCHANGED ghost

clear_tmp_messages_override ==
    /\ pc = "idle"
    /\ tmp_messages' = <<>>
    /\ ghost' = Overridden(ghost)
    /\ UNCHANGED <<api_key, messages>>
    /\ UNCHANGED callVars

add_tmp_messages(msgs) ==
    /\ pc = "idle"
    /\ Len(tmp_messages) + Len(msgs) <= MaxMsgs
    /\ tmp_messages' = tmp_messages \o msgs
    /\ \E k \in 0..Len(msgs) : ghost' = Pushed(ghost, Len(tmp_messages), Len(msgs), k)
    /\ UNCHANGED <<api_key, messages>>
    /\ UNCHANGED callVars

add_tmp_message(msg) ==
    /\ pc = "idle"
    /\ Len(tmp_messages) < MaxMsgs
    /\ tmp_messages' = Append(tmp_messages, msg)
    /\ \E k \in 0..1 : ghost' = Pushed(ghost, Len(tmp_messages), 1, k)
    /\ UNCHANGED <<api_key, messages>>
    /\ UNCHANGED callVars

\* Option<Vec<Message>>: None when the buffer is empty, else a copy of it.
None == [some |-> FALSE, value |-> <<>>]
Some(v) == [some |-> TRUE, value |-> v]
get_tmp_request_messages(tmp) ==
    IF tmp = <<>> THEN None ELSE Some(tmp)

\* ------------------------------------------------------------------- hash
\* A client value: the fields of Groq; client names its reqwest::Client.
Groq(key, hist, tmp, c) ==
    [api_key |-> key, messages |-> hist, tmp_messages |-> tmp, client |-> c]
\* What hashing a Vec<Message> / a String feeds the Hasher: the length and
\* the elements; the text and the 0xff terminator.
HashVec(v) == <<Len(v)>> \o v
HashStr(x) == <<x, 255>>

\* Variant: every field of the struct is hashed, as a derived Hash would.
hash_all_fields(g) ==
    HashVec(g.messages) \o HashVec(g.tmp_messages) \o HashStr(g.api_key)
    \o <<g.client>>

\* impl Hash for Groq: the sequence fed to the Hasher, of which the value of
\* finish() is a function.
hash(g) ==
    HashVec(g.messages) \o HashStr(g.api_key)

\* -------------------------------------------------------------- assembler
\* Variant: history placed ahead of the pending messages.
get_all_request_messages_swapped(hist, tmp) ==
    IF tmp = <<>> THEN hist ELSE hist \o tmp

\* vec![tmp_messages.clone(), messages.clone()].concat()
get_all_request_messages(hist, tmp) ==
    IF tmp = <<>> THEN hist ELSE tmp \o hist

\* ------------------------------------------------------------ entry points
\* Variant: the test on the flag inverted.
Dispatch_flipped(f) ==
    IF f THEN "nonstream" ELSE "stream"

\* create: the flag of the builder picks the path.
Dispatch(f) ==
    IF ~f THEN "nonstream" ELSE "stream"

StartCall(e, p, f) ==
    /\ pc = "idle"
    /\ pc' = "assemble"
    /\ entry' = e
    /\ path' = p
    /\ flag' = f
    /\ hist0' = messages
    /\ tmp0' = tmp_messages
    /\ all' = <<>>
    /\ req' = NoRequest
    /\ stream' = "none"
    /\ received' = <<>>
    /\ bufs' = <<>>
    /\ status' = 0
    /\ body' = NoBody
    /\ sent' = 0
    /\ result' = NoResult
    /\ UNCHANGED storeVars
    /\ UNCHANGED ghost

create(f) ==
    StartCall("create", Dispatch(f), f)

\* create_stream_completion invoked as a function of its own, with any builder.
create_stream_completion(f) ==
    StartCall("create_stream_completion", "stream", f)

\* Variant: the merged list is read and tmp_messages is left as it is.
get_request_messages_without_clear ==
    /\ pc = "assemble"
    /\ all' = get_all_request_messages(messages, tmp_messages)
    /\ ghost' = Assembled(ghost,
                          get_all_request_messages(Zeros(messages),
                                                   Marks(ghost, tmp_messages)),
                          FALSE)
    /\ pc' = "build"
    /\ UNCHANGED <<api_key, messages, tmp_messages>>
    /\ UNCHANGED <<entry, path, flag, req, stream, received, bufs, status,
                   body, sent, result, hist0, tmp0>>

\* Variant: the history is moved out of the client instead of cloned.
get_request_messages_taking_history ==
    /\ pc = "assemble"
    /\ all' = get_all_request_messages(messages, tmp_messages)
    /\ ghost' = Assembled(ghost,
                          get_all_request_messages(Zeros(messages),
                                                   Marks(ghost, tmp_messages)),
                          TRUE)
    /\ tmp_messages' = <<>>
    /\ messages' = <<>>
    /\ pc' = "build"
    /\ UNCHANGED api_key
    /\ UNCHANGED <<entry, path, flag, req, stream, received, bufs, status,
                   body, sent, result, hist0, tmp0>>

\* Variant: only the first pending message is removed.
get_request_messages_partial_clear ==
    /\ pc = "assemble"
    /\ all' = get_all_request_messages(messages, tmp_messages)
    /\ ghost' = Assembled(ghost,
                          get_all_request_messages(Zeros(messages),
                                                   Marks(ghost, tmp_messages)),
                          TRUE)
    /\ tmp_messages' = IF tmp_messages = <<>> THEN <<>> ELSE Tail(tmp_messages)
    /\ pc' = "build"
    /\ UNCHANGED <<api_key, messages>>
    /\ UNCHANGED <<entry, path, flag, req, stream, received, bufs, status,
                   body, sent, result, hist0, tmp0>>

\* get_request_messages_with_tmp_clear: read the merged list, then clear
\* tmp_messages; no await in between.
get_request_messages_with_tmp_clear ==
    /\ pc = "assemble"
    /\ all' = get_all_request_messages(messages, tmp_messages)
    /\ ghost' = Assembled(ghost,
                          get_all_request_messages(Zeros(messages),
                                                   Marks(ghost, tmp_messages)),
                          TRUE)
    /\ tmp_messages' = <<>>
    /\ pc' = "build"
    /\ UNCHANGED <<api_key, messages>>
    /\ UNCHANGED <<entry, path, flag, req, stream, received, bufs, status,
                   body, sent, result, hist0, tmp0>>

\* stream.close()
Close(s) ==
    IF s = "open" THEN "closed" ELSE s

\* Variant: the event source outlives the call.
Drop_leak(s) ==
    s

\* The local `stream` going out of scope when the function returns: an event
\* source still open is released with it.
Drop(s) ==
    IF s = "open" THEN "dropped" ELSE s

\* Return of r to the caller, the stream being s when the locals are dropped.
ReturnWith(r, s) ==
    /\ result' = r
    /\ stream' = Drop(s)
    /\ pc' = "done"

Return(r) ==
    ReturnWith(r, stream)

\* RequestBuilder::with_messages(..)? and build(): the builder may refuse the
\* list; otherwise the request carries the list and the builder's flag.
with_messages_build(ok) ==
    /\ pc = "build"
    /\ IF ok
       THEN /\ req' = [built |-> TRUE, messages |-> all, stream |-> flag]
            /\ pc' = IF path = "stream" THEN "ensure" ELSE "send"
            /\ UNCHANGED <<result, stream>>
       ELSE /\ Return(Err("build", 0))
            /\ UNCHANGED req
    /\ UNCHANGED storeVars
    /\ UNCHANGED ghost
    /\ UNCHANGED <<entry, path, flag, all, received, bufs, status, body, sent,
                   hist0, tmp0>>

\* -------------------------------------------------------- streaming path
\* serde_json::from_str::<StreamResponse>: a JSON chunk document decodes to
\* its chunk; anything else, the sentinel text included, is a decode error.
DecodeChunk(d) ==
    CASE d = "{c1}" -> [ok |-> TRUE, chunk |-> "c1"]
      [] d = "{c2}" -> [ok |-> TRUE, chunk |-> "c2"]
      [] OTHER -> [ok |-> FALSE, chunk |-> ""]

\* Events stream.next().await can yield; "end" stands for None.
Events ==
    {[type |-> "open", data |-> ""], [type |-> "error", data |-> ""],
     [type |-> "end", data |-> ""]}
    \cup {[type |-> "message", data |-> d] : d \in Payloads}

\* Variant: the flag of the request is not tested.
ensure_and_connect_unchecked(ok) ==
    /\ pc = "ensure"
    /\ IF ok
       THEN /\ stream' = "open"
            /\ sent' = sent + 1
            /\ pc' = "next"
            /\ UNCHANGED result
       ELSE /\ Return(Err("request", 0))
            /\ UNCHANGED sent
    /\ UNCHANGED storeVars
    /\ UNCHANGED ghost
    /\ UNCHANGED <<entry, path, flag, all, req, received, bufs, status, body,
                   hist0, tmp0>>

\* anyhow::ensure!(req.is_stream(), ..), then EventSource::new(..)?
ensure_and_connect(ok) ==
    /\ pc = "ensure"
    /\ IF ~req.stream
       THEN /\ Return(Err("precondition", 0))
            /\ UNCHANGED sent
       ELSE IF ok
       THEN /\ stream' = "open"
            /\ sent' = sent + 1
            /\ pc' = "next"
            /\ UNCHANGED result
       ELSE /\ Return(Err("request", 0))
            /\ UNCHANGED sent
    /\ UNCHANGED storeVars
    /\ UNCHANGED ghost
    /\ UNCHANGED <<entry, path, flag, all, req, received, bufs, status, body,
                   hist0, tmp0>>

\* Variant: no sentinel test; every payload is decoded.
HandleMessage_no_sentinel(b, d) ==
    IF DecodeChunk(d).ok
    THEN [ctl |-> "continue", bufs |-> Append(b, DecodeChunk(d).chunk)]
    ELSE [ctl |-> "fail", bufs |-> b]

\* Variant: an undecodable payload is skipped and the loop goes on.
HandleMessage_skip_bad(b, d) ==
    IF d = DONE
    THEN [ctl |-> "break", bufs |-> b]
    ELSE IF DecodeChunk(d).ok
    THEN [ctl |-> "continue", bufs |-> Append(b, DecodeChunk(d).chunk)]
    ELSE [ctl |-> "continue", bufs |-> b]

\* The body of the Ok(Event::Message(message)) arm: the sentinel breaks the
\* loop, a decodable payload is pushed, an undecodable one is returned by `?`.
HandleMessage(b, d) ==
    IF d = DONE
    THEN [ctl |-> "break", bufs |-> b]
    ELSE IF DecodeChunk(d).ok
    THEN [ctl |-> "continue", bufs |-> Append(b, DecodeChunk(d).chunk)]
    ELSE [ctl |-> "fail", bufs |-> b]

\* Variant: the chunks gathered so far are returned as a success.
OnStreamError_partial(b) ==
    OkStream(b)

\* Variant: the failure returned tells nothing of its kind.
OnStreamError_unlabelled(b) ==
    Err("", 0)

\* What the call returns when the stream yields Err(err).
OnStreamError(b) ==
    Err("transport", 0)

\* Variant: leaving the loop is reported as a failure of the stream.
OnLoopExit_error(b) ==
    Err("transport", 0)

\* What the call returns after the loop: Ok(CompletionOption::Stream(bufs)).
OnLoopExit(b) ==
    OkStream(b)

\* One turn of `while let Some(event) = stream.next().await`, up to the next
\* await or to the return of the function.
stream_next(ev) ==
    /\ pc = "next"
    /\ ev.type = "end" \/ Len(received) < MaxEvents
    /\ received' = Append(received, ev)
    /\ CASE ev.type = "open" ->
              /\ UNCHANGED <<pc, bufs, stream, result>>
         [] ev.type = "message" /\ HandleMessage(bufs, ev.data).ctl = "continue" ->
              /\ bufs' = HandleMessage(bufs, ev.data).bufs
              /\ UNCHANGED <<pc, stream, result>>
         [] ev.type = "message" /\ HandleMessage(bufs, ev.data).ctl = "fail" ->
              /\ Return(Err("decode", 0))
              /\ UNCHANGED bufs
         [] ev.type = "error" ->
              /\ ReturnWith(OnStreamError(bufs), Close(stream))
              /\ UNCHANGED bufs
         [] OTHER ->
              \* break on the sentinel, or None: stream.close(); Ok(Stream(bufs))
              /\ ReturnWith(OnLoopExit(bufs), Close(stream))
              /\ UNCHANGED bufs
    /\ UNCHANGED storeVars
    /\ UNCHANGED ghost
    /\ UNCHANGED <<entry, path, flag, all, req, status, body, sent, hist0,
                   tmp0>>

\* ---------------------------------------------------- non-streaming path
\* body.json::<Response>(): only a Response document decodes.
DecodeResponse(b) ==
    [ok |-> b.kind = "response", response |-> b.id]

\* serde_json::from_str::<ErrorResponse>: only an error document decodes; the
\* decoded value carries whatever code the document gave.
DecodeErrorResponse(b) ==
    [ok |-> b.kind = "error", code |-> b.code]

\* Variant: every response is handled as a failure.
IsOK_never(st) ==
    FALSE

\* body.status() == reqwest::StatusCode::OK
IsOK(st) ==
    st = 200

\* Variant: the decoded error keeps the code its document carried.
WithStatus_keep(e, st) ==
    e

\* error.code = statcode
WithStatus(e, st) ==
    [e EXCEPT !.code = st]

\* Variant: a failed send is tried once more before the failure is returned.
send_retry(ok, st) ==
    /\ pc = "send"
    /\ sent' = sent + 1
    /\ IF ok
       THEN /\ status' = st
            /\ pc' = "body"
            /\ UNCHANGED <<result, stream>>
       ELSE IF sent = 0
       THEN UNCHANGED <<pc, status, result, stream>>
       ELSE /\ Return(Err("transport", 0))
            /\ UNCHANGED status
    /\ UNCHANGED storeVars
    /\ UNCHANGED ghost
    /\ UNCHANGED <<entry, path, flag, all, req, received, bufs, body, hist0,
                   tmp0>>

\* .send().await?: a transport failure, or a response with a status.
send(ok, st) ==
    /\ pc = "send"
    /\ sent' = sent + 1
    /\ IF ok
       THEN /\ status' = st
            /\ pc' = "body"
            /\ UNCHANGED <<result, stream>>
       ELSE /\ Return(Err("transport", 0))
            /\ UNCHANGED status
    /\ UNCHANGED storeVars
    /\ UNCHANGED ghost
    /\ UNCHANGED <<entry, path, flag, all, req, received, bufs, body, hist0,
                   tmp0>>

\* Variant: an error body that does not decode still yields an application
\* error (a defaulted ErrorResponse).
read_body_lenient(ok, b) ==
    /\ pc = "body"
    /\ body' = IF ok THEN b ELSE NoBody
    /\ IF ~ok
       THEN Return(Err("transport", 0))
       ELSE IF IsOK(status)
       THEN IF DecodeResponse(b).ok
            THEN Return(OkNonStream(DecodeResponse(b).response))
            ELSE Return(Err("decode", 0))
       ELSE Return(WithStatus(Err("application", DecodeErrorResponse(b).code),
                              status))
    /\ UNCHANGED storeVars
    /\ UNCHANGED ghost
    /\ UNCHANGED <<entry, path, flag, all, req, received, bufs, status, sent,
                   hist0, tmp0>>

\* Reading and decoding the body: body.json().await? on OK, else
\* body.text().await?, from_str(..)?, error.code = statcode, bail!(error).
read_body(ok, b) ==
    /\ pc = "body"
    /\ body' = IF ok THEN b ELSE NoBody
    /\ IF ~ok
       THEN Return(Err("transport", 0))
       ELSE IF IsOK(status)
       THEN IF DecodeResponse(b).ok
            THEN Return(OkNonStream(DecodeResponse(b).response))
            ELSE Return(Err("decode", 0))
       ELSE IF DecodeErrorResponse(b).ok
            THEN Return(WithStatus(Err("application", DecodeErrorResponse(b).code),
                                   status))
            ELSE Return(Err("decode", 0))
    /\ UNCHANGED storeVars
    /\ UNCHANGED ghost
    /\ UNCHANGED <<entry, path, flag, all, req, received, bufs, status, sent,
                   hist0, tmp0>>

\* The caller takes the result; the client is free for the next operation.
Finish ==
    /\ pc = "done"
    /\ pc' = "idle"
    /\ entry' = ""
    /\ path' = ""
    /\ flag' = FALSE
    /\ all' = <<>>
    /\ req' = NoRequest
    /\ stream' = "none"
    /\ received' = <<>>
    /\ bufs' = <<>>
    /\ status' = 0
    /\ body' = NoBody
    /\ sent' = 0
    /\ result' = NoResult
    /\ hist0' = <<>>
    /\ tmp0' = <<>>
    /\ UNCHANGED storeVars
    /\ UNCHANGED ghost

Next ==
    \/ \E m \in Msgs : add_message(m)
    \/ \E ms \in SeqsUpTo(Msgs, MaxMsgs) : add_messages(ms)
    \/ clear_messages
    \/ clear_tmp_messages_override
    \/ \E ms \in SeqsUpTo(Msgs, MaxMsgs) : add_tmp_messages(ms)
    \/ \E m \in Msgs : add_tmp_message(m)
    \/ \E f \in BOOLEAN : create(f)
    \/ \E f \in BOOLEAN : create_stream_completion(f)
    \/ get_request_messages_with_tmp_clear
    \/ \E ok \in BOOLEAN : with_messages_build(ok)
    \/ \E ok \in BOOLEAN : ensure_and_connect(ok)
    \/ \E ev \in Events : stream_next(ev)
    \/ \E ok \in BOOLEAN, st \in Statuses : send(ok, st)
    \/ \E ok \in BOOLEAN, b \in Bodies : read_body(ok, b)
    \/ Finish

Spec == Init /\ [][Next]_vars

\* A step of the call in flight: the future is polled again whenever the
\* outcome it awaits is there, and the remote side or the transport always
\* gives some outcome.
CallStep ==
    \/ get_request_messages_with_tmp_clear
    \/ \E ok \in BOOLEAN : with_messages_build(ok)
    \/ \E ok \in BOOLEAN : ensure_and_connect(ok)
    \/ \E ev \in Events : stream_next(ev)
    \/ \E ok \in BOOLEAN, st \in Statuses : send(ok, st)
    \/ \E ok \in BOOLEAN, b \in Bodies : read_body(ok, b)

FairSpec == Spec /\ WF_vars(CallStep)

\* The same program with the bookkeeping on one pending message switched on.
TrackingSpec == InitTracking /\ [][Next]_vars

\* ------------------------------------------------------------- properties
InCall == pc # "idle"
Returned == pc = "done"
Connected == path = "stream" /\ sent > 0

IsMessage(e) == e.type = "message"
IsSentinel(e) == e.type = "message" /\ e.data = DONE
IsStreamError(e) == e.type = "error"
IsUndecodable(e) == e.type = "message" /\ e.data # DONE /\ ~DecodeChunk(e.data).ok
\* No error, undecodable payload or stream end among the events es.
Clean(es) ==
    \A j \in 1..Len(es) :
        ~IsStreamError(es[j]) /\ ~IsUndecodable(es[j]) /\ es[j].type # "end"

\* The chunks of the message events of es, in order.
RECURSIVE ChunksOf(_)
ChunksOf(es) ==
    IF es = <<>> THEN <<>>
    ELSE IF IsMessage(Head(es)) /\ DecodeChunk(Head(es).data).ok
         THEN <<DecodeChunk(Head(es).data).chunk>> \o ChunksOf(Tail(es))
         ELSE ChunksOf(Tail(es))

\* C1: the message list of the request a call builds is the pending buffer
\* the call started with followed by the history it started with (the history
\* alone when pending was empty): same elements, same order, nothing dropped
\* or duplicated.
C1_MergeOrder ==
    /\ pc \notin {"idle", "assemble"} => all = tmp0 \o hist0
    /\ req.built =>
          /\ req.messages = tmp0 \o hist0
          /\ Len(req.messages) = Len(tmp0) + Len(hist0)
          /\ tmp0 = <<>> => req.messages = hist0
C1_Witness ==
    /\ sent > 0
    /\ tmp0 = <<"m1">>
    /\ hist0 = <<"m2", "m1">>
    /\ req.messages = <<"m1", "m2", "m1">>

\* C2: when a call has returned, whatever its outcome and on either path,
\* tmp_messages is empty and peeking it reports None.
C2_PendingEmptyAfterCall ==
    Returned =>
        /\ tmp_messages = <<>>
        /\ get_tmp_request_messages(tmp_messages) = None
C2_Witness ==
    /\ Returned
    /\ entry = "create"
    /\ path = "stream"
    /\ tmp0 # <<>>
    /\ get_tmp_request_messages(tmp0).some
    /\ result.err = "transport"
    /\ received = <<[type |-> "error", data |-> ""]>>

\* C3: no step of a call changes the history, and a step that changes the
\* history is a step of add_message, add_messages or clear_messages.
C3_HistoryFrame ==
    [][ /\ InCall => messages' = messages
        /\ messages' # messages =>
              \/ \E m \in Msgs : add_message(m)
              \/ \E ms \in SeqsUpTo(Msgs, MaxMsgs) : add_messages(ms)
              \/ clear_messages ]_vars
C3_Witness ==
    /\ Returned
    /\ hist0 = <<"m1">>
    /\ tmp0 = <<>>
    /\ result = OkNonStream(1)
    /\ messages = hist0
    /\ tmp_messages = <<>>

\* C4: when the stream has yielded the sentinel after events free of errors
\* and undecodable payloads, the sentinel is the last event read, and the
\* call has returned the Stream success holding exactly the chunks of the
\* message events before it, in arrival order, duplicates kept.
C4_SentinelTermination ==
    \A i \in 1..Len(received) :
        (IsSentinel(received[i]) /\ Clean(SubSeq(received, 1, i - 1))) =>
            /\ i = Len(received)
            /\ Returned
            /\ result = OkStream(ChunksOf(SubSeq(received, 1, i - 1)))
            /\ bufs = ChunksOf(SubSeq(received, 1, i - 1))
C4_Witness ==
    /\ Returned
    /\ received = <<[type |-> "message", data |-> "{c1}"],
                    [type |-> "message", data |-> "{c1}"],
                    [type |-> "message", data |-> DONE]>>
    /\ result = OkStream(<<"c1", "c1">>)

\* C5: once the stream has reported an error, the call has returned a
\* failure that carries none of the accumulated chunks and no further event
\* is read; a Stream success is never the result of a call whose stream
\* reported an error.
C5_AllOrNothing ==
    /\ \A i \in 1..Len(received) :
          IsStreamError(received[i]) =>
              /\ i = Len(received)
              /\ Returned
              /\ result.tag = "err"
              /\ result.err = "transport"
              /\ result.chunks = <<>>
    /\ result.variant = "Stream" =>
          \A i \in 1..Len(received) : ~IsStreamError(received[i])
C5_Witness ==
    /\ Returned
    /\ bufs = <<"c1", "c2">>
    /\ IsStreamError(received[Len(received)])
    /\ result.tag = "err"

\* C6: on the non-streaming path, a response whose status is not 200 and
\* whose body is an error document ends in an application error whose code
\* is the observed status, whatever code the document carried; status 200
\* with a Response document ends in the NonStream success.
C6_StatusMapping ==
    (Returned /\ path = "nonstream" /\ body # NoBody) =>
        /\ (status # 200 /\ body.kind = "error") =>
               result = Err("application", status)
        /\ (status = 200 /\ body.kind = "response") =>
               result = OkNonStream(body.id)
C6_Witness ==
    /\ Returned
    /\ status = 429
    /\ body.kind = "error"
    /\ body.code = 400
    /\ result.err = "application"
    /\ result.code = 429

\* C7 (as claimed): an application error is the result only of a
\* non-streaming call whose status is outside 200..299.
C7_OnlyNon2xx ==
    result.err = "application" =>
        (path = "nonstream" /\ status \notin 200..299)
\* C7 (amended): an application error is the result only of a non-streaming
\* call that got a response whose status is not 200; no streaming call ends
\* in one.
C7_OnlyNon200 ==
    result.err = "application" =>
        /\ path = "nonstream"
        /\ status # 0
        /\ status # 200
        /\ body.kind = "error"
C7_Witness ==
    /\ Returned
    /\ result.err = "application"
    /\ status = 201
    /\ result.code = 201

\* C8: a call entered through create runs the streaming path exactly when
\* the flag is true and touches nothing of the other path; its success is
\* the Stream variant exactly when the flag is true and the NonStream
\* variant exactly when it is false.
C8_DispatchOnFlag ==
    (InCall /\ entry = "create") =>
        /\ path = (IF flag THEN "stream" ELSE "nonstream")
        /\ flag => (pc \notin {"send", "body"} /\ status = 0 /\ body = NoBody)
        /\ ~flag => (pc \notin {"ensure", "next"} /\ stream = "none"
                      /\ received = <<>>)
        /\ result.tag = "ok" =>
              /\ result.variant = "Stream" <=> flag
              /\ result.variant = "NonStream" <=> ~flag
C8_Witness ==
    /\ Returned
    /\ entry = "create"
    /\ flag
    /\ result.variant = "Stream"
    /\ hist0 # <<>>
    /\ tmp0 # <<>>
    /\ api_key = "k"

C10_MalformedChunkFails ==
    \A i \in 1..Len(received) :
        IsUndecodable(received[i]) =>
            /\ i = Len(received)
            /\ Returned
            /\ result = Err("decode", 0)
C10_Witness ==
    /\ Returned
    /\ bufs = <<"c1">>
    /\ Len(received) = 2
    /\ IsUndecodable(received[2])
    /\ result.err = "decode"

\* C11: a message pushed on tmp_messages and not removed by a direct
\* clear_tmp_messages_override is in no assembled list while no assembler run
\* followed its addition, and from the first assembler run on (whether that
\* call fails or not, and however many calls follow) it is in exactly one
\* assembled list and no longer pending.
C11_OneShot ==
    (ghost.track # "idle" /\ ~ghost.dropped) =>
        /\ ghost.seen = 0 =>
              /\ ghost.uses = 0
              /\ ghost.track = "pending"
              /\ ghost.pos \in 1..Len(tmp_messages)
        /\ ghost.seen >= 1 =>
              /\ ghost.uses = 1
              /\ ghost.track = "gone"
C11_Witness ==
    /\ Returned
    /\ ghost.seen = 2
    /\ ghost.uses = 1
    /\ ~ghost.dropped
    /\ tmp0 # <<>>
    /\ hist0 # <<>>
    /\ result.tag = "err"

\* C12: pending is empty in every state of a call in which the builder can
\* refuse the list, the precondition is tested, a request has been sent, a
\* connection is open or a result (any failure included) is being returned.
C12_DrainBeforeRemote ==
    /\ pc \in {"build", "ensure", "send", "body", "next", "done"} =>
          tmp_messages = <<>>
    /\ (sent > 0 \/ stream # "none" \/ status # 0 \/ result.tag = "err") =>
          tmp_messages = <<>>
C12_Witness ==
    /\ pc = "next"
    /\ stream = "open"
    /\ sent = 1
    /\ tmp0 = <<"m1", "m2">>
    /\ tmp_messages = <<>>

\* C13 (as claimed): a failure is of one of the four kinds transport,
\* protocol/decode, application, precondition violation.
FourKinds == {"transport", "decode", "application", "precondition"}
SixKinds == FourKinds \cup {"build", "request"}
IsTerminal(e) ==
    IsStreamError(e) \/ IsSentinel(e) \/ e.type = "end" \/ IsUndecodable(e)
OneOutcome ==
    /\ Returned <=> result # NoResult
    /\ result.tag \in {"none", "ok", "err"}
    /\ result.tag = "ok" =>
          (result.err = "" /\ result.variant \in {"NonStream", "Stream"})
    /\ result.tag = "err" =>
          (result.variant = "" /\ result.chunks = <<>> /\ result.response = 0
           /\ result.err \in SixKinds)
    /\ \A i \in 1..Len(received) : IsTerminal(received[i]) => Returned
C14_DecodeFailureDistinct ==
    (Returned /\ path = "nonstream" /\ body # NoBody) =>
        /\ (status = 200 /\ body.kind # "response") => result = Err("decode", 0)
        /\ (status # 200 /\ body.kind # "error") => result = Err("decode", 0)
        /\ result.err = "application" => body.kind = "error"
C14_Witness ==
    /\ Returned
    /\ path = "nonstream"
    /\ status = 500
    /\ body.kind = "garbage"
    /\ result = Err("decode", 0)

\* C15: a call issues at most one request or event-stream connection, and
\* it issues one only while it has issued none, has no result, no response
\* and no event yet: after a failure nothing further is sent.
C15_NoRetry ==
    /\ [](sent <= 1)
    /\ [][sent' > sent =>
            /\ sent = 0
            /\ result = NoResult
            /\ status = 0
            /\ received = <<>>
            /\ stream = "none"]_vars
    /\ [][result.tag = "err" => sent' <= sent]_vars
C15_Witness ==
    /\ Returned
    /\ path = "nonstream"
    /\ sent = 1
    /\ result = Err("transport", 0)
    /\ status = 0

\* C16: the hash of the client equals the hash of every client with the same
\* credential and the same history, whatever that client's pending buffer
\* and transport resource are.
Self == Groq(api_key, messages, tmp_messages, 1)
C16_HashDeterminism ==
    \A tmp \in SeqsUpTo(Msgs, MaxMsgs), c \in {1, 2} :
        hash(Groq(api_key, messages, tmp, c)) = hash(Self)
C16_Witness ==
    /\ api_key = "k"
    /\ messages = <<"m1", "m2">>
    /\ tmp_messages = <<"m2">>
    /\ hash(Self) = hash(Groq("k", <<"m1", "m2">>, <<>>, 2))
    /\ hash(Self) # hash(Groq("k", <<"m2", "m1">>, <<>>, 2))

\* C17: a step of add_message or add_messages leaves the history as it was
\* followed by the argument(s) in the given order, with nothing removed as a
\* duplicate, and leaves pending and the credential alone; a step of
\* add_tmp_message or add_tmp_messages does the same to pending and leaves
\* history and the credential alone.
C17_AppendFrame ==
    [][ /\ \A m \in Msgs :
              add_message(m) =>
                  /\ messages' = messages \o <<m>>
                  /\ tmp_messages' = tmp_messages /\ api_key' = api_key
        /\ \A ms \in SeqsUpTo(Msgs, MaxMsgs) :
              add_messages(ms) =>
                  /\ Len(messages') = Len(messages) + Len(ms)
                  /\ SubSeq(messages', 1, Len(messages)) = messages
                  /\ SubSeq(messages', Len(messages) + 1, Len(messages')) = ms
                  /\ tmp_messages' = tmp_messages /\ api_key' = api_key
        /\ \A m \in Msgs :
              add_tmp_message(m) =>
                  /\ tmp_messages' = tmp_messages \o <<m>>
                  /\ messages' = messages /\ api_key' = api_key
        /\ \A ms \in SeqsUpTo(Msgs, MaxMsgs) :
              add_tmp_messages(ms) =>
                  /\ Len(tmp_messages') = Len(tmp_messages) + Len(ms)
                  /\ SubSeq(tmp_messages', 1, Len(tmp_messages)) = tmp_messages
                  /\ SubSeq(tmp_messages', Len(tmp_messages) + 1,
                            Len(tmp_messages')) = ms
                  /\ messages' = messages /\ api_key' = api_key ]_vars
C17_Witness ==
    /\ pc = "idle"
    /\ messages = <<"m1", "m1">>
    /\ tmp_messages = <<"m2", "m2">>

\* C18: in every state of a call pending is either the whole buffer the call
\* started with or empty; it is the whole buffer only before the assembler
\* ran, and at every later point (each await included) it is empty and the
\* list that was read starts with the whole buffer.
C18_AtomicDrain ==
    InCall =>
        /\ tmp_messages = tmp0 \/ tmp_messages = <<>>
        /\ pc = "assemble" => tmp_messages = tmp0
        /\ pc # "assemble" =>
              /\ tmp_messages = <<>>
              /\ Len(all) >= Len(tmp0)
              /\ SubSeq(all, 1, Len(tmp0)) = tmp0
C18_Witness ==
    /\ pc = "body"
    /\ tmp0 = <<"m1", "m2">>
    /\ hist0 = <<"m2">>
    /\ all = <<"m1", "m2", "m2">>
    /\ tmp_messages = <<>>

\* C19: when the stream has ended (next() gave None) after events free of
\* errors, undecodable payloads and sentinel, the call has closed the stream
\* and returned the Stream success holding the chunks of the message events
\* read, in arrival order; open events add no chunk.
C19_StreamEnd ==
    \A i \in 1..Len(received) :
        (received[i].type = "end" /\ Clean(SubSeq(received, 1, i - 1))) =>
            /\ i = Len(received)
            /\ Returned
            /\ stream = "closed"
            /\ result = OkStream(ChunksOf(SubSeq(received, 1, i - 1)))
            /\ Len(result.chunks) =
                  Cardinality({j \in 1..(i - 1) : IsMessage(received[j])})
C19_Witness ==
    /\ Returned
    /\ received = <<[type |-> "open", data |-> ""],
                    [type |-> "message", data |-> "{c2}"],
                    [type |-> "end", data |-> ""]>>
    /\ result = OkStream(<<"c2">>)

====
